---- MODULE Spec2Model ----
(***************************************************************************)
(* ENADE Medicina 2025 dashboard (src/app.py): the data-preparation        *)
(* pipeline (load_data, load_coordinates, add_coordinates), the two filter *)
(* applications (scatter view, map view), the participant-weighted mean    *)
(* and the empty-state guards, as one script pass per user interaction.    *)
(*                                                                         *)
(* Values.  A cell of a table is a tuple:                                  *)
(*   <<s>>      a string s                                                 *)
(*   <<n, d>>   the number n/d with d > 0 (an integer is <<n, 1>>)         *)
(*   <<0, 0>>   NaN, pandas' missing value                                 *)
(*   <<1, 0>>, <<-1, 0>>   +inf, -inf (float64 division by zero)           *)
(* A table is [columns, rows]; a row is a function from the column names   *)
(* and "index" (the pandas index label) to cells.                          *)
(*                                                                         *)
(* Strings are written in ASCII: an accented letter of the source is its   *)
(* base letter followed by a mark (a~ a' a^ e' e^ i' o' u' c, and o_ for   *)
(* the ordinal sign), so "Sa~o Paulo" is the source's São Paulo and stays  *)
(* different from "Sao Paulo".                                             *)
(***************************************************************************)
EXTENDS Integers, Sequences, FiniteSets, TLC

VARIABLES
    sheet,                      \* conceito-enade-2025-medicina.xlsx
    coords_file,                \* coordinates.json, or FileNotFound
    pc,                         \* "start", "loaded", "done", "error"
    error,                      \* the exception that ended the last call or pass
    df,                         \* load_data()'s table
    coords,                     \* load_coordinates()'s mapping
    session_state,              \* the widgets' values, by widget key
    df_filtered,                \* scatter view, lines 138-149
    df_geo,                     \* line 253
    df_map_filtered,            \* map view, lines 281-287
    df_map,                     \* line 290
    total_participantes,        \* line 294
    weighted_mean_proficiency,  \* lines 296-298
    scatter_out,                \* "chart", "warning" or "none" (not reached)
    map_out                     \* "chart", "warning" or "none" (not reached)

vars == <<sheet, coords_file, pc, error, df, coords, session_state, df_filtered,
          df_geo, df_map_filtered, df_map, total_participantes,
          weighted_mean_proficiency, scatter_out, map_out>>

---------------------------------------------------------------------------
(* Cells and float64 arithmetic *)

NaN == <<0, 0>>
PosInf == <<1, 0>>
NegInf == <<-1, 0>>
Str(s) == <<s>>
Num(n) == <<n, 1>>
Unset == <<>>

isna(c) == c = NaN
IsFinite(c) == Len(c) = 2 /\ c[2] > 0
IsNumber(c) == Len(c) = 2

Sign(n) == IF n > 0 THEN 1 ELSE IF n < 0 THEN -1 ELSE 0

\* a - b on float64 (NaN propagates; inf - inf is NaN)
Sub(a, b) ==
    IF isna(a) \/ isna(b) THEN NaN
    ELSE IF IsFinite(a) /\ IsFinite(b) THEN <<a[1] * b[2] - b[1] * a[2], a[2] * b[2]>>
    ELSE IF IsFinite(b) THEN a
    ELSE IF IsFinite(a) THEN <<-b[1], 0>>
    ELSE IF a = b THEN NaN ELSE a

\* a / b on float64: x/0 is +-inf, 0/0 is NaN, no exception
Div(a, b) ==
    IF isna(a) \/ isna(b) THEN NaN
    ELSE IF IsFinite(a) /\ IsFinite(b) THEN
        IF b[1] = 0 THEN <<Sign(a[1]), 0>>
        ELSE <<Sign(b[1]) * a[1] * b[2], Sign(b[1]) * a[2] * b[1]>>
    ELSE IF IsFinite(b) THEN <<a[1] * (IF b[1] < 0 THEN -1 ELSE 1), 0>>
    ELSE IF IsFinite(a) THEN Num(0)
    ELSE NaN

\* a * k for an integer k
Mul(a, k) ==
    IF isna(a) THEN NaN
    ELSE IF IsFinite(a) THEN <<a[1] * k, a[2]>>
    ELSE IF k = 0 THEN NaN ELSE <<a[1] * Sign(k), 0>>

\* n/d (d > 0) rounded to the nearest integer, ties to even (numpy's rint)
RoundHalfEven(n, d) ==
    LET q == n \div d
        r == n - q * d
    IN IF 2 * r < d THEN q
       ELSE IF 2 * r > d THEN q + 1
       ELSE IF q % 2 = 0 THEN q ELSE q + 1

\* Series.round(1): NaN and +-inf are kept
Round1(a) == IF IsFinite(a) THEN <<RoundHalfEven(10 * a[1], a[2]), 10>> ELSE a

---------------------------------------------------------------------------
(* Tables *)

Range(s) == {s[i] : i \in DOMAIN s}

NoTable == [columns |-> {}, rows |-> <<>>]

\* df[name] = values, a Series aligned with df's rows
WithColumn(t, name, values) ==
    [columns |-> t.columns \cup {name},
     rows |-> [i \in DOMAIN t.rows |->
                 [c \in DOMAIN t.rows[i] \cup {name} |->
                     IF c = name THEN values[i] ELSE t.rows[i][c]]]]

\* df[name], a Series
Column(t, name) == [i \in DOMAIN t.rows |-> t.rows[i][name]]

\* DataFrame.dropna(subset=...): the rows with no NaN in the subset's columns
dropna(t, subset) ==
    LET Keep(r) == \A c \in subset : ~isna(r[c])
    IN [columns |-> t.columns, rows |-> SelectSeq(t.rows, Keep)]

Return(v) == [exception |-> "none", value |-> v]
Raise(e) == [exception |-> e, value |-> NoTable]

---------------------------------------------------------------------------
(* load_data, lines 18-43 *)

\* the columns= argument of df.rename, lines 22-34
RenameTable ==
    ("Nome da IES*" :> "nome_ies") @@
    ("Sigla da IES*" :> "sigla_ies") @@
    ("Munici'pio do Curso" :> "municipio") @@
    ("Sigla da UF" :> "uf") @@
    ("Categoria Administrativa" :> "categoria") @@
    ("No_ de Concluintes Inscritos" :> "n_inscritos") @@
    ("No_  de Concluintes Participantes" :> "n_participantes") @@
    ("Percentual de Concluintes Participantes Igual ou Acima da Proficie^ncia " :> "pct_proficiencia") @@
    ("Conceito Enade (Faixa)" :> "conceito_enade") @@
    ("Organizac,a~o Acade^mica" :> "org_academica") @@
    ("Co'digo do Curso" :> "cod_curso")

RequiredHeaders == DOMAIN RenameTable

\* pd.read_excel: the sheet's columns and rows under a RangeIndex 0..n-1
read_excel(file) ==
    [columns |-> file.columns,
     rows |-> [i \in DOMAIN file.rows |->
                 [c \in file.columns \cup {"index"} |->
                     IF c = "index" THEN Num(i - 1) ELSE file.rows[i][c]]]]

\* DataFrame.rename(columns=mapper): a label the mapper does not hold is kept,
\* a key of the mapper that is no column is ignored (errors='ignore')
rename(t, mapper) ==
    LET NewName(c) == IF c \in DOMAIN mapper THEN mapper[c] ELSE c
        OldName(n) == CHOOSE c \in t.columns \cup {"index"} : NewName(c) = n
        NewLabels == {NewName(c) : c \in t.columns}
    IN [columns |-> NewLabels,
        rows |-> [i \in DOMAIN t.rows |->
                    [n \in NewLabels \cup {"index"} |-> t.rows[i][OldName(n)]]]]

\* Series.astype(str): NaN becomes "nan", a string stays, an integer is printed
astype_str(c) ==
    IF isna(c) THEN Str("nan")
    ELSE IF Len(c) = 1 THEN c
    ELSE Str(ToString(c[1]))

\* line 38: ((n_inscritos - n_participantes) / n_inscritos * 100).round(1)
abstencao(n_inscritos, n_participantes) ==
    Round1(Mul(Div(Sub(n_inscritos, n_participantes), n_inscritos), 100))

\* a dropna that also tests the enrolled count
EssentialColumnsAndInscritos == {"n_participantes", "pct_proficiencia", "n_inscritos"}

\* line 42: dropna(subset=[...])
EssentialColumns == {"n_participantes", "pct_proficiencia"}

load_data(file) ==
    LET df0 == rename(read_excel(file), RenameTable)
    IN IF "pct_proficiencia" \notin df0.columns THEN Raise("KeyError")
       ELSE LET df1 == WithColumn(df0, "pct_proficiencia_display",
                          [i \in DOMAIN df0.rows |->
                              Mul(df0.rows[i]["pct_proficiencia"], 100)])
       IN IF "n_inscritos" \notin df1.columns THEN Raise("KeyError")
       ELSE IF "n_participantes" \notin df1.columns THEN Raise("KeyError")
       ELSE LET df2 == WithColumn(df1, "abstencao",
                          [i \in DOMAIN df1.rows |->
                              abstencao(df1.rows[i]["n_inscritos"],
                                        df1.rows[i]["n_participantes"])])
       IN IF "conceito_enade" \notin df2.columns THEN Raise("KeyError")
       ELSE LET df3 == WithColumn(df2, "conceito_enade",
                          [i \in DOMAIN df2.rows |->
                              astype_str(df2.rows[i]["conceito_enade"])])
       IN Return(dropna(df3, EssentialColumns))

---------------------------------------------------------------------------
(* load_coordinates and add_coordinates, lines 45-65 *)

\* json.load of coordinates.json; FileNotFoundError gives the empty mapping
load_coordinates(file) == IF file.exists THEN file.content ELSE <<>>

\* str() of a cell inside an f-string
format(c) ==
    IF isna(c) THEN "nan"
    ELSE IF Len(c) = 1 THEN c[1]
    ELSE ToString(c[1])

\* a key joined without the blank after the comma
CoordKeyNoSpace(row) == format(row["municipio"]) \o "," \o format(row["uf"])

\* f"{row['municipio']}, {row['uf']}"
CoordKey(row) == format(row["municipio"]) \o ", " \o format(row["uf"])

\* coords.get(key, {}).get(field): None (a missing value) without the key or field
Lookup(mapping, key, field) ==
    IF key \in DOMAIN mapping /\ field \in DOMAIN mapping[key]
    THEN mapping[key][field] ELSE NaN

\* df.copy(): a new table, which does not alias the caller's
copy(t) == [aliased |-> FALSE, table |-> t]

\* caller: the caller's table after the call; result: the returned table
add_coordinates(t, mapping) ==
    LET local == copy(t)
        withLat == WithColumn(local.table, "lat",
                      [i \in DOMAIN local.table.rows |->
                          Lookup(mapping, CoordKey(local.table.rows[i]), "lat")])
        withLon == WithColumn(withLat, "lon",
                      [i \in DOMAIN withLat.rows |->
                          Lookup(mapping, CoordKey(withLat.rows[i]), "lon")])
    IN [caller |-> IF local.aliased THEN withLon ELSE t, result |-> withLon]

---------------------------------------------------------------------------
(* Widgets and filters, lines 90-149 and 255-290 *)

ScatterUfKey == "scatter_uf"
ScatterCatKey == "scatter_cat"
ColorByKey == "Colorir pontos por"
RangeKey == "Filtrar por nu'mero de participantes"
\* the map's UF multiselect under the scatter view's key
SharedUfKey == "scatter_uf"
MapUfKey == "map_uf"
MapCatKey == "map_cat"

WidgetKeys == {ScatterUfKey, ScatterCatKey, ColorByKey, RangeKey, MapUfKey, MapCatKey}

color_options == ("UF" :> "uf") @@ ("Categoria Administrativa" :> "categoria") @@
                 ("Conceito ENADE" :> "conceito_enade")

\* sorted(df[column].dropna().unique().tolist()), as a set of strings
Options(t, column) == {r[column][1] : r \in {x \in Range(t.rows) : ~isna(x[column])}}

\* int(x): truncation toward zero
Trunc(c) == IF c[1] >= 0 THEN c[1] \div c[2] ELSE -((-c[1]) \div c[2])

Less(a, b) == a[1] * b[2] < b[1] * a[2]

\* int(df['n_participantes'].min()) and int(df['n_participantes'].max())
min_part(t) ==
    Trunc(CHOOSE c \in Range(Column(t, "n_participantes")) :
             \A o \in Range(Column(t, "n_participantes")) : ~Less(o, c))
max_part(t) ==
    Trunc(CHOOSE c \in Range(Column(t, "n_participantes")) :
             \A o \in Range(Column(t, "n_participantes")) : ~Less(c, o))

\* Series.isin(values): NaN is in no selection
isin(c, values) == ~isna(c) /\ c[1] \in values

\* the rows whose value is not selected
WhereNotIn(t, column, values) ==
    LET Keep(r) == ~isin(r[column], values)
    IN [columns |-> t.columns, rows |-> SelectSeq(t.rows, Keep)]

\* df[df[column].isin(values)]
WhereIn(t, column, values) ==
    LET Keep(r) == isin(r[column], values)
    IN [columns |-> t.columns, rows |-> SelectSeq(t.rows, Keep)]

\* a range that excludes its upper bound
WhereBetweenExclusive(t, column, lo, hi) ==
    LET Keep(r) == /\ IsNumber(r[column]) /\ ~isna(r[column])
                   /\ r[column][1] >= lo * r[column][2]
                   /\ r[column][1] < hi * r[column][2]
    IN [columns |-> t.columns, rows |-> SelectSeq(t.rows, Keep)]

\* df[(df[column] >= lo) & (df[column] <= hi)]
WhereBetween(t, column, lo, hi) ==
    LET Keep(r) == /\ IsNumber(r[column]) /\ ~isna(r[column])
                   /\ r[column][1] >= lo * r[column][2]
                   /\ r[column][1] <= hi * r[column][2]
    IN [columns |-> t.columns, rows |-> SelectSeq(t.rows, Keep)]

\* a selection applied even when it is empty
SelectedAlways(t, column, values) == WhereIn(t, column, values)

\* "if selected:" -- an empty multiselect applies no filter
Selected(t, column, values) ==
    IF values # {} THEN WhereIn(t, column, values) ELSE t

\* lines 138-149
ScatterFilter(t, selected_ufs, selected_cats, participant_range) ==
    WhereBetween(Selected(Selected(t, "uf", selected_ufs), "categoria", selected_cats),
                 "n_participantes", participant_range[1], participant_range[2])

\* lines 281-287
MapFilter(t, map_selected_ufs, map_selected_cats) ==
    Selected(Selected(t, "uf", map_selected_ufs), "categoria", map_selected_cats)

---------------------------------------------------------------------------
(* Weighted statistics, lines 292-298 *)

Add(a, b) == Sub(a, Mul(b, -1))

Times(a, b) ==
    IF isna(a) \/ isna(b) THEN NaN
    ELSE IF IsFinite(a) /\ IsFinite(b) THEN <<a[1] * b[1], a[2] * b[2]>>
    ELSE IF (IsFinite(a) /\ a[1] = 0) \/ (IsFinite(b) /\ b[1] = 0) THEN NaN
    ELSE <<Sign(a[1]) * Sign(b[1]), 0>>

\* Series.sum(): NaN is skipped, the empty sum is 0
RECURSIVE Sum(_)
Sum(series) ==
    IF Len(series) = 0 THEN Num(0)
    ELSE IF isna(series[1]) THEN Sum(Tail(series))
    ELSE Add(series[1], Sum(Tail(series)))

total(t) == Sum(Column(t, "n_participantes"))

weighted_mean(t) ==
    Div(Sum([i \in DOMAIN t.rows |->
                Times(t.rows[i]["pct_proficiencia_display"], t.rows[i]["n_participantes"])]),
        total(t))

---------------------------------------------------------------------------
(* Spreadsheets *)

MaxRows == 2                    \* rows of a spreadsheet
MaxMissing == 1                 \* required headers a spreadsheet may lack

\* one spreadsheet row under the eleven required headers
SheetRow(municipio, uf, categoria, n_inscritos, n_participantes, pct, conceito) ==
    ("Nome da IES*" :> Str("Universidade")) @@
    ("Sigla da IES*" :> Str("UNI")) @@
    ("Munici'pio do Curso" :> municipio) @@
    ("Sigla da UF" :> uf) @@
    ("Categoria Administrativa" :> categoria) @@
    ("No_ de Concluintes Inscritos" :> n_inscritos) @@
    ("No_  de Concluintes Participantes" :> n_participantes) @@
    ("Percentual de Concluintes Participantes Igual ou Acima da Proficie^ncia " :> pct) @@
    ("Conceito Enade (Faixa)" :> conceito) @@
    ("Organizac,a~o Acade^mica" :> Str("Universidade")) @@
    ("Co'digo do Curso" :> Num(1))

\* the cells load_data computes with or tests, each with and without a value
LoadRows ==
    {SheetRow(Str("Sa~o Paulo"), Str("SP"), Str("Pu'blica"), i, p, f, c) :
        i \in {NaN, Num(0), Num(3), Num(100)},
        p \in {NaN, Num(0), Num(2)},
        f \in {NaN, <<1, 2>>},
        c \in {NaN, Str("3")}}

SeqsUpTo(S, n) == UNION {[1..k -> S] : k \in 0..n}

ConformantSheets ==
    {[columns |-> RequiredHeaders, rows |-> t] : t \in SeqsUpTo(LoadRows, MaxRows)}

\* a sheet without the headers in missing
Without(file, missing) ==
    [columns |-> file.columns \ missing,
     rows |-> [i \in DOMAIN file.rows |->
                 [c \in file.columns \ missing |-> file.rows[i][c]]]]

SampleRow ==
    SheetRow(Str("Sa~o Paulo"), Str("SP"), Str("Pu'blica"), Num(100), Num(90), <<1, 2>>, Str("3"))

NonConformantSheets ==
    {Without([columns |-> RequiredHeaders, rows |-> t], m) :
        t \in {<<>>, <<SampleRow>>},
        m \in {x \in SUBSET RequiredHeaders : Cardinality(x) \in 1..MaxMissing}}

---------------------------------------------------------------------------
(* The loader alone: one call of load_data on a spreadsheet *)

Idle ==
    /\ coords_file = [exists |-> FALSE, content |-> <<>>]
    /\ coords = <<>> /\ session_state = <<>>
    /\ df_filtered = NoTable /\ df_geo = NoTable /\ df_map_filtered = NoTable
    /\ df_map = NoTable /\ total_participantes = Unset
    /\ weighted_mean_proficiency = Unset
    /\ scatter_out = "none" /\ map_out = "none"

InitLoad ==
    /\ sheet \in ConformantSheets \cup NonConformantSheets
    /\ pc = "start" /\ error = "none" /\ df = NoTable
    /\ Idle

CallLoadData ==
    /\ pc = "start"
    /\ LET r == load_data(sheet)
       IN /\ pc' = (IF r.exception = "none" THEN "loaded" ELSE "error")
          /\ error' = r.exception
          /\ df' = r.value
    /\ UNCHANGED <<sheet, coords_file, coords, session_state, df_filtered, df_geo,
                   df_map_filtered, df_map, total_participantes,
                   weighted_mean_proficiency, scatter_out, map_out>>

NextLoad == CallLoadData

SpecLoad == InitLoad /\ [][NextLoad]_vars

---------------------------------------------------------------------------
(* One pass of the script, lines 67-400 *)

\* the widgets' values before any interaction
Defaults(t) ==
    [k \in WidgetKeys |->
        IF k = RangeKey THEN
            (IF Len(t.rows) = 0 THEN Unset ELSE <<min_part(t), max_part(t)>>)
        ELSE IF k = ColorByKey THEN "UF"
        ELSE {}]

\* the pass stopped by exception e before any view was computed
Stopped(t, e) ==
    [error |-> e, df |-> t, df_filtered |-> NoTable, df_geo |-> NoTable,
     df_map_filtered |-> NoTable, df_map |-> NoTable,
     total_participantes |-> Unset, weighted_mean_proficiency |-> Unset,
     scatter_out |-> "none", map_out |-> "none"]

Script(t, mapping, ss) ==
    \* line 128: min() of no rows is NaN, and int(NaN) raises ValueError
    IF Len(t.rows) = 0 THEN Stopped(t, "ValueError")
    ELSE
    LET filtered == ScatterFilter(t, ss[ScatterUfKey], ss[ScatterCatKey], ss[RangeKey])
        geo == add_coordinates(t, mapping)
        map_filtered == MapFilter(geo.result, ss[MapUfKey], ss[MapCatKey])
        on_map == dropna(map_filtered, {"lat", "lon"})
        shown == Len(on_map.rows) > 0
    IN [error |-> "none",
        df |-> geo.caller,
        df_filtered |-> filtered,
        scatter_out |-> IF Len(filtered.rows) > 0 THEN "chart" ELSE "warning",
        df_geo |-> geo.result,
        df_map_filtered |-> map_filtered,
        df_map |-> on_map,
        total_participantes |-> IF shown THEN total(on_map) ELSE Unset,
        weighted_mean_proficiency |-> IF shown THEN weighted_mean(on_map) ELSE Unset,
        map_out |-> IF shown THEN "chart" ELSE "warning"]

Render(out) ==
    /\ pc' = (IF out.error = "none" THEN "done" ELSE "error")
    /\ error' = out.error
    /\ df' = out.df
    /\ df_filtered' = out.df_filtered
    /\ df_geo' = out.df_geo
    /\ df_map_filtered' = out.df_map_filtered
    /\ df_map' = out.df_map
    /\ total_participantes' = out.total_participantes
    /\ weighted_mean_proficiency' = out.weighted_mean_proficiency
    /\ scatter_out' = out.scatter_out
    /\ map_out' = out.map_out

---------------------------------------------------------------------------
(* The dashboard: the first pass, then one pass per interaction *)

\* the rows the dashboard's spreadsheets are made of
RowPool ==
    << SheetRow(Str("Sa~o Paulo"), Str("SP"), Str("Pu'blica"), Num(3), Num(2), <<1, 2>>, Str("3")),
       SheetRow(Str("Sao Paulo"), Str("SP"), Str("Privada"), Num(1), Num(1), <<1, 1>>, Str("5")),
       SheetRow(Str("Nitero'i"), Str("RJ"), Str("Privada"), Num(0), Num(0), <<0, 1>>, NaN),
       SheetRow(Str("Manaus"), NaN, NaN, Num(2), Num(1), <<1, 1>>, Str("4")),
       SheetRow(Str("Recife"), Str("PE"), Str("Pu'blica"), Num(2), NaN, NaN, NaN) >>

RECURSIVE Pick(_, _)
\* the pool's rows numbered in S, from row n on, in the pool's order
Pick(S, n) ==
    IF n > Len(RowPool) THEN <<>>
    ELSE IF n \in S THEN <<RowPool[n]>> \o Pick(S, n + 1)
    ELSE Pick(S, n + 1)

DashboardSheets ==
    {[columns |-> RequiredHeaders, rows |-> Pick(S, 1)] :
        S \in {x \in SUBSET (1..Len(RowPool)) : Cardinality(x) <= MaxRows}}

Coordinates ==
    ("Sa~o Paulo, SP" :> (("lat" :> Num(-23)) @@ ("lon" :> Num(-46)))) @@
    ("Nitero'i, RJ" :> (("lat" :> Num(-22)) @@ ("lon" :> Num(-43)))) @@
    ("Manaus, nan" :> (("lat" :> Num(-3)) @@ ("lon" :> Num(-60))))

CoordinateFiles ==
    {[exists |-> FALSE, content |-> <<>>], [exists |-> TRUE, content |-> Coordinates]}

Init ==
    /\ sheet \in DashboardSheets
    /\ coords_file \in CoordinateFiles
    /\ pc = "start" /\ error = "none" /\ df = NoTable
    /\ coords = <<>> /\ session_state = <<>>
    /\ df_filtered = NoTable /\ df_geo = NoTable /\ df_map_filtered = NoTable
    /\ df_map = NoTable /\ total_participantes = Unset
    /\ weighted_mean_proficiency = Unset
    /\ scatter_out = "none" /\ map_out = "none"

\* the first pass: both loaders run (and are cached), every widget at its default
Start ==
    /\ pc = "start"
    /\ LET loaded == load_data(sheet)
           mapping == load_coordinates(coords_file)
       IN IF loaded.exception # "none"
          THEN /\ Render(Stopped(NoTable, loaded.exception))
               /\ UNCHANGED <<coords, session_state>>
          ELSE /\ coords' = mapping
               /\ session_state' = Defaults(loaded.value)
               /\ Render(Script(loaded.value, mapping, Defaults(loaded.value)))
    /\ UNCHANGED <<sheet, coords_file>>

\* the widgets the last pass drew
Rendered ==
    IF pc = "done" THEN WidgetKeys
    ELSE IF pc = "error" /\ error = "ValueError"
    THEN {ScatterUfKey, ScatterCatKey, ColorByKey}
    ELSE {}

\* the user sets widget key to value: its value is stored and the script reruns
Interact(key, value) ==
    /\ key \in Rendered
    /\ value # session_state[key]
    /\ session_state' = [session_state EXCEPT ![key] = value]
    /\ Render(Script(df, coords, [session_state EXCEPT ![key] = value]))
    /\ UNCHANGED <<sheet, coords_file, coords>>

ChangeScatterUf == \E v \in SUBSET Options(df, "uf") : Interact(ScatterUfKey, v)

ChangeScatterCat == \E v \in SUBSET Options(df, "categoria") : Interact(ScatterCatKey, v)

ChangeColorBy == \E v \in DOMAIN color_options : Interact(ColorByKey, v)

ChangeParticipantRange ==
    /\ Len(df.rows) > 0
    /\ \E lo \in min_part(df)..max_part(df) : \E hi \in lo..max_part(df) :
          Interact(RangeKey, <<lo, hi>>)

ChangeMapUf == \E v \in SUBSET Options(df_geo, "uf") : Interact(MapUfKey, v)

ChangeMapCat == \E v \in SUBSET Options(df_geo, "categoria") : Interact(MapCatKey, v)

Next ==
    \/ Start
    \/ ChangeScatterUf
    \/ ChangeScatterCat
    \/ ChangeColorBy
    \/ ChangeParticipantRange
    \/ ChangeMapUf
    \/ ChangeMapCat

Spec == Init /\ [][Next]_vars

---------------------------------------------------------------------------
(* Properties of the loader (SpecLoad) *)

Rows(t) == Range(t.rows)

HParticipantes == "No_  de Concluintes Participantes"
HProficiencia == "Percentual de Concluintes Participantes Igual ou Acima da Proficie^ncia "
HInscritos == "No_ de Concluintes Inscritos"
HConceito == "Conceito Enade (Faixa)"

\* the sheet rows (by RangeIndex label) that hold both essential measurements
Essential ==
    {i \in DOMAIN sheet.rows :
        ~isna(sheet.rows[i][HParticipantes]) /\ ~isna(sheet.rows[i][HProficiencia])}

\* C3: a row of the source spreadsheet is in load_data's table iff its
\* participant count and its proficiency fraction are both present; a missing
\* value in another column drops no row, no row appears twice, and a kept row
\* carries its source cells in the source order.
C3_RowElision ==
    pc = "loaded" =>
        /\ \A i \in DOMAIN sheet.rows :
              Cardinality({j \in DOMAIN df.rows : df.rows[j]["index"] = Num(i - 1)})
                  = (IF i \in Essential THEN 1 ELSE 0)
        /\ Len(df.rows) = Cardinality(Essential)
        /\ \A j \in DOMAIN df.rows :
              LET i == df.rows[j]["index"][1] + 1
              IN /\ i \in DOMAIN sheet.rows
                 /\ \A h \in sheet.columns \ {HConceito} :
                       df.rows[j][RenameTable[h]] = sheet.rows[i][h]
        /\ \A j, k \in DOMAIN df.rows :
              j < k => df.rows[j]["index"][1] < df.rows[k]["index"][1]

\* C3's case: one row is dropped, and a row with neither an enrolled count nor
\* a grade band is kept
C3_Witness ==
    /\ pc = "loaded" /\ sheet.columns = RequiredHeaders
    /\ Len(sheet.rows) = 2 /\ Len(df.rows) = 1
    /\ \E i \in DOMAIN sheet.rows :
          /\ i \in Essential
          /\ isna(sheet.rows[i][HInscritos]) /\ isna(sheet.rows[i][HConceito])

\* C5: with n_inscritos > 0 the abstention is ((n_inscritos - n_participantes)
\* / n_inscritos) * 100 to one decimal (100 and 90 give 10.0); with
\* n_inscritos = 0 it is missing, whatever the participant count.
C5_Abstention ==
    pc = "loaded" =>
        \A r \in Rows(df) :
            LET ins == r["n_inscritos"]
                part == r["n_participantes"]
                a == r["abstencao"]
            IN /\ (IsFinite(ins) /\ ins[1] > 0) =>
                     /\ IsFinite(a) /\ a[2] = 10
                     \* a is the multiple of 0.1 nearest to the exact quotient
                     /\ 2 * (a[1] * ins[1] - 1000 * (ins[1] - part[1])) <= ins[1]
                     /\ 2 * (1000 * (ins[1] - part[1]) - a[1] * ins[1]) <= ins[1]
               /\ (ins = Num(100) /\ part = Num(90)) => a = <<100, 10>>
               /\ ins = Num(0) => isna(a)

\* C8: a spreadsheet that lacks a required header makes load_data fail; it
\* never returns a table.
C8_SchemaMismatch ==
    (pc # "start" /\ sheet.columns # RequiredHeaders) => pc = "error"

---------------------------------------------------------------------------
(* Properties of the dashboard (Spec) *)

\* the widgets' values, by the keys the source gives them
selected_ufs == session_state["scatter_uf"]
selected_cats == session_state["scatter_cat"]
participant_range == session_state["Filtrar por nu'mero de participantes"]
map_selected_ufs == session_state["map_uf"]
map_selected_cats == session_state["map_cat"]

InSelection(r, column, selection) == ~isna(r[column]) /\ r[column][1] \in selection

InRange(r, lo, hi) ==
    r["n_participantes"][1] >= lo * r["n_participantes"][2] /\
    r["n_participantes"][1] <= hi * r["n_participantes"][2]

\* C1: in both views and for both categorical dimensions, an empty selection
\* returns the rows that the other filters alone return: it restricts nothing.
C1_EmptySelectionIsNoFilter ==
    pc = "done" =>
        /\ selected_ufs = {} =>
              Rows(df_filtered) =
                  {r \in Rows(df) :
                      /\ (selected_cats # {} => InSelection(r, "categoria", selected_cats))
                      /\ InRange(r, participant_range[1], participant_range[2])}
        /\ selected_cats = {} =>
              Rows(df_filtered) =
                  {r \in Rows(df) :
                      /\ (selected_ufs # {} => InSelection(r, "uf", selected_ufs))
                      /\ InRange(r, participant_range[1], participant_range[2])}
        /\ map_selected_ufs = {} =>
              Rows(df_map_filtered) =
                  {r \in Rows(df_geo) :
                      map_selected_cats # {} => InSelection(r, "categoria", map_selected_cats)}
        /\ map_selected_cats = {} =>
              Rows(df_map_filtered) =
                  {r \in Rows(df_geo) :
                      map_selected_ufs # {} => InSelection(r, "uf", map_selected_ufs)}

\* C1's case: nothing is selected in either view, the table has a row with a
\* state and a row without one, and both views return every row
C1_Witness ==
    /\ pc = "done"
    /\ selected_ufs = {} /\ selected_cats = {}
    /\ map_selected_ufs = {} /\ map_selected_cats = {}
    /\ participant_range = <<min_part(df), max_part(df)>>
    /\ Options(df, "uf") # {} /\ Options(df, "categoria") # {}
    /\ \E r \in Rows(df_filtered) : isna(r["uf"]) /\ isna(r["categoria"])
    /\ Len(df.rows) >= 2
    /\ Len(df_filtered.rows) = Len(df.rows) /\ Len(df_map_filtered.rows) = Len(df.rows)

\* C2: the scatter view's table holds exactly the base rows whose state is
\* selected (or no state is selected), whose category is selected (or no
\* category is selected) and whose participant count lies in [lo, hi], both
\* bounds included; each such row once, in the base table's order.
C2_ScatterFilterExact ==
    pc = "done" =>
        LET Passes(r) ==
                /\ (selected_ufs = {} \/ InSelection(r, "uf", selected_ufs))
                /\ (selected_cats = {} \/ InSelection(r, "categoria", selected_cats))
                /\ InRange(r, participant_range[1], participant_range[2])
        IN /\ Rows(df_filtered) = {r \in Rows(df) : Passes(r)}
           /\ Len(df_filtered.rows) = Cardinality({i \in DOMAIN df.rows : Passes(df.rows[i])})
           /\ \A j, k \in DOMAIN df_filtered.rows :
                 j < k => df_filtered.rows[j]["index"][1] < df_filtered.rows[k]["index"][1]

\* C2's case: all three predicates are active, a row on each bound of the
\* range passes and another row is filtered out
C2_Witness ==
    /\ pc = "done"
    /\ selected_ufs # {} /\ selected_cats # {}
    /\ participant_range # <<min_part(df), max_part(df)>>
    /\ \E r \in Rows(df_filtered) : r["n_participantes"] = Num(participant_range[1])
    /\ \E r \in Rows(df_filtered) : r["n_participantes"] = Num(participant_range[2])
    /\ Len(df_filtered.rows) < Len(df.rows)

\* C4: the weighted mean that reaches the metric is never NaN or infinite, in
\* particular not when the map's rows have no participants in total.
C4_NoNaNMetric ==
    pc = "done" => weighted_mean_proficiency \notin {NaN, PosInf, NegInf}

\* C6: add_coordinates returns the rows of its input, each with its cells
\* unchanged and with the lat/lon stored under the key "<municipio>, <uf>",
\* missing when the mapping has no such key; the input table is not changed.
C6_GeoJoin ==
    pc = "done" =>
        /\ Len(df_geo.rows) = Len(df.rows)
        /\ df_geo.columns = df.columns \cup {"lat", "lon"}
        /\ \A i \in DOMAIN df.rows :
              LET r == df.rows[i]
                  g == df_geo.rows[i]
                  key == (IF isna(r["municipio"]) THEN "nan" ELSE r["municipio"][1])
                         \o ", " \o
                         (IF isna(r["uf"]) THEN "nan" ELSE r["uf"][1])
              IN /\ \A c \in df.columns \cup {"index"} : g[c] = r[c]
                 /\ key \in DOMAIN coords =>
                       g["lat"] = coords[key]["lat"] /\ g["lon"] = coords[key]["lon"]
                 /\ key \notin DOMAIN coords => isna(g["lat"]) /\ isna(g["lon"])
        /\ df = load_data(sheet).value
        /\ "lat" \notin df.columns /\ "lon" \notin df.columns

\* C6's case: the mapping holds "São Paulo, SP"; the row of São Paulo gets its
\* coordinates and the row of Sao Paulo gets none and is kept
C6_Witness ==
    /\ pc = "done"
    /\ "Sa~o Paulo, SP" \in DOMAIN coords
    /\ \E g \in Rows(df_geo) :
          g["municipio"] = Str("Sa~o Paulo") /\ g["uf"] = Str("SP") /\ g["lat"] = Num(-23)
    /\ \E g \in Rows(df_geo) :
          g["municipio"] = Str("Sao Paulo") /\ g["uf"] = Str("SP") /\ isna(g["lat"])

\* the widgets whose value the step changes
ChangedKeys == {k \in DOMAIN session_state : session_state'[k] # session_state[k]}

ScatterKeys ==
    {"scatter_uf", "scatter_cat", "Colorir pontos por", "Filtrar por nu'mero de participantes"}

MapKeys == {"map_uf", "map_cat"}

\* C7: a step that changes only scatter-view controls leaves the map view's
\* rows, totals, weighted mean and display as they were; a step that changes
\* only map-view controls leaves the scatter view's rows and display as they
\* were; a change of the colour selector alone leaves the rows of both.
C7_IndependentViews ==
    [][ (pc = "done" /\ pc' = "done") =>
          /\ ChangedKeys \subseteq ScatterKeys =>
                UNCHANGED <<df_geo, df_map_filtered, df_map, total_participantes,
                            weighted_mean_proficiency, map_out>>
          /\ ChangedKeys \subseteq MapKeys => UNCHANGED <<df_filtered, scatter_out>>
          /\ ChangedKeys \subseteq {"Colorir pontos por"} =>
                UNCHANGED <<df_filtered, scatter_out>> ]_vars

\* C7's case: the two views hold different selections and show different rows
C7_Witness ==
    /\ pc = "done"
    /\ selected_ufs # {} /\ map_selected_ufs # {} /\ selected_ufs # map_selected_ufs
    /\ selected_cats # map_selected_cats
    /\ Len(df_filtered.rows) > 0 /\ Len(df_map.rows) > 0
    /\ {r["index"] : r \in Rows(df_filtered)} # {r["index"] : r \in Rows(df_map)}

\* a is narrower than b as a filter: b selects nothing (so restricts
\* nothing), or a selects something and only values that b selects
IsNarrowerFilter(a, b) == b = {} \/ (a # {} /\ a \subseteq b)

\* selection a counts as narrower than (or equal to) selection b
Narrower(a, b, bySubset) == IF bySubset THEN a \subseteq b ELSE IsNarrowerFilter(a, b)

\* the arguments the scatter view's widgets can hold that are wider than (or
\* equal to) the current ones
WiderScatter(bySubset) ==
    {w \in (SUBSET Options(df, "uf")) \X (SUBSET Options(df, "categoria"))
            \X (min_part(df)..participant_range[1])
            \X (participant_range[2]..max_part(df)) :
        Narrower(selected_ufs, w[1], bySubset) /\ Narrower(selected_cats, w[2], bySubset)}

WiderMap(bySubset) ==
    {w \in (SUBSET Options(df_geo, "uf")) \X (SUBSET Options(df_geo, "categoria")) :
        Narrower(map_selected_ufs, w[1], bySubset) /\
        Narrower(map_selected_cats, w[2], bySubset)}

\* the rows of each view are among the rows every wider argument tuple returns
Monotone(bySubset) ==
    pc = "done" =>
        /\ \A w \in WiderScatter(bySubset) :
              Rows(df_filtered) \subseteq Rows(ScatterFilter(df, w[1], w[2], <<w[3], w[4]>>))
        /\ \A w \in WiderMap(bySubset) :
              Rows(df_map_filtered) \subseteq Rows(MapFilter(df_geo, w[1], w[2]))

\* C9 as stated: whenever each selection set is a subset of the wider one (the
\* empty set included) and the range is contained in the wider one, the rows
\* returned are a subset of the rows the wider arguments return.
C9_MonotoneBySubset == Monotone(TRUE)

\* C9, amended: the same, except where the narrower selection is empty and the
\* wider one is not.
C9_MonotoneAmended == Monotone(FALSE)

\* C9's case: a state and a range are selected, a row passes, and both a wider
\* selection and a wider range exist
C9_Witness ==
    /\ pc = "done"
    /\ selected_ufs # {} /\ selected_ufs # Options(df, "uf")
    /\ map_selected_ufs # {} /\ map_selected_ufs # Options(df, "uf")
    /\ participant_range[1] > min_part(df)
    /\ Len(df_filtered.rows) > 0 /\ Len(df_map_filtered.rows) > 0
    /\ Len(ScatterFilter(df, Options(df, "uf"), selected_cats,
                         <<min_part(df), max_part(df)>>).rows) > Len(df_filtered.rows)

\* C10: every pass ends without an error; a view with no row to show displays
\* its warning, computes no aggregate and builds no chart; a view with a row
\* to show builds its chart (the map also its weighted mean) and no warning.
C10_EmptyState ==
    pc # "start" =>
        /\ error = "none"
        /\ Len(df_filtered.rows) = 0 => scatter_out = "warning"
        /\ Len(df_filtered.rows) > 0 => scatter_out = "chart"
        /\ Len(df_map.rows) = 0 =>
              map_out = "warning" /\ weighted_mean_proficiency = Unset
        /\ Len(df_map.rows) > 0 =>
              map_out = "chart" /\ weighted_mean_proficiency # Unset

====
